---------------------------- MODULE Spec2Model ----------------------------
(***************************************************************************)
(* A model of the nsg-trajectory-analysis scripts: the canonical-form      *)
(* encoder make_hashable of repeated_actions.py, the repetition counter    *)
(* built on it, and the per-line episode handlers of the analysis scripts. *)
(*                                                                         *)
(* JSON values (what json.loads returns) and the hashable Python values    *)
(* make_hashable builds are tagged records [t |-> tag, v |-> payload]:     *)
(*   "null"  v = 0            None                                         *)
(*   "bool"  v \in BOOLEAN    True / False                                 *)
(*   "int"   v \in Int        an int                                       *)
(*   "float" v \in Int        a float, held in tenths (499 is 49.9)        *)
(*   "str"   v \in STRING     a str                                        *)
(*   "list"  v = <<e1, ...>>  a list                                       *)
(*   "dict"  v = <<<<k1, x1>>, ...>>  a dict, in insertion order, its keys *)
(*                            (strings) pairwise distinct                  *)
(*   "tuple" v = <<e1, ...>>  a tuple (only make_hashable builds these)    *)
(*   "other" v \in STRING     a value of a non-JSON type, held as its str()*)
(*   "pydict" v = <<<<k1, x1>>, ...>>  a dict Python code built, whose keys *)
(*                            are primitive values of any type             *)
(*   "raised" v \in STRING    no value: the call raised the exception v    *)
(***************************************************************************)
EXTENDS Integers, Sequences, FiniteSets, TLC

VARIABLES
    obj,            \* make_hashable: the argument
    hashed,         \* make_hashable: the returned value (NotYet before the call)
    calls,          \* make_hashable: the calls made so far, [arg, key] each
    script,         \* the script that runs
    status,         \* "running", "done" (returned) or "crashed" (uncaught exception)
    threshold,      \* the script's step parameter (step_limit_threshold,
                    \* step_threshold, max_steps)
    file_no,        \* how many of the given file paths the loop has taken
    filepath,       \* the path of the file being read
    in_file,        \* a file is open and its lines are being read
    line_num,       \* the number of the line last read from the open file
    nread,          \* lines read in the whole run
    line,           \* the line last read
    su,             \* summary.py: the five episode lists
    ra,             \* repeated_actions.py: the result lists
    ce,             \* check_all_early_terminations.py: the three episode lists
    fs,             \* find_short_losses.py: the episodes reported
    cn,             \* count_episodes.py: results and the open file's file_stats
    ie,             \* investigate_end_condition.py: the episodes read, and the
                    \* numbers of those investigate_episode has printed
    csv_file,       \* repeated_actions.py: the text export_csv wrote
    jc,             \* json_to_csv.py: the plan entries taken, the files found,
                    \* the rows collected and the text written
    aj              \* analyze_jsonl.py: the counters, samples and structure of
                    \* the file being analyzed

hashVars == <<obj, hashed, calls>>
runVars ==
    <<script, status, threshold, file_no, filepath, in_file, line_num, nread,
      line, su, ra, ce, fs, cn, ie, csv_file, jc, aj>>
vars == <<hashVars, runVars>>

-----------------------------------------------------------------------------
(* Values *)

None == [t |-> "null", v |-> 0]
Bool(b) == [t |-> "bool", v |-> b]
IntV(n) == [t |-> "int", v |-> n]
FloatV(tenths) == [t |-> "float", v |-> tenths]
Str(s) == [t |-> "str", v |-> s]
List(s) == [t |-> "list", v |-> s]
Dict(items) == [t |-> "dict", v |-> items]
Tuple(s) == [t |-> "tuple", v |-> s]
Other(repr) == [t |-> "other", v |-> repr]
PyDict(items) == [t |-> "pydict", v |-> items]

\* What a call that raised TypeError leaves instead of a value.
Raised == [t |-> "raised", v |-> "TypeError"]

\* A variable that holds no value yet.
NotYet == [t |-> "unset", v |-> 0]

IsNumber(x) == x.t \in {"bool", "int", "float"}

\* The numeric value of a bool, int or float, in tenths.
NumVal(x) ==
    IF x.t = "bool" THEN (IF x.v THEN 10 ELSE 0)
    ELSE IF x.t = "int" THEN 10 * x.v
    ELSE x.v

\* The code points of the strings the model uses (Python compares str by
\* code point, so "B" < "a" < "ab" < "b").
CodePoints(s) ==
    CASE s = "a" -> <<97>>
      [] s = "b" -> <<98>>
      [] s = "ab" -> <<97, 98>>
      [] s = "B" -> <<66>>
      [] s = "action_type" -> <<97, 99, 116, 105, 111, 110, 95, 116, 121, 112, 101>>
      [] s = "parameters" -> <<112, 97, 114, 97, 109, 101, 116, 101, 114, 115>>
      [] OTHER -> <<0>>

RECURSIVE SeqLess(_, _)
SeqLess(p, q) ==
    IF p = <<>> THEN q # <<>>
    ELSE IF q = <<>> THEN FALSE
    ELSE IF Head(p) # Head(q) THEN Head(p) < Head(q)
    ELSE SeqLess(Tail(p), Tail(q))

\* s1 < s2 on Python str: lexicographic on code points.
StrLess(s1, s2) == SeqLess(CodePoints(s1), CodePoints(s2))

\* a == b on the values make_hashable returns, as a dict (Counter) key lookup
\* decides it: tuples element by element, bool/int/float by numeric value
\* (True == 1 == 1.0), str and None by identity of value.
RECURSIVE PyEq(_, _)
PyEq(a, b) ==
    IF a.t = "tuple" /\ b.t = "tuple"
    THEN /\ Len(a.v) = Len(b.v)
         /\ \A i \in 1..Len(a.v) : PyEq(a.v[i], b.v[i])
    ELSE IF IsNumber(a) /\ IsNumber(b) THEN NumVal(a) = NumVal(b)
    ELSE IF a.t = "str" /\ b.t = "str" THEN a.v = b.v
    ELSE a.t = "null" /\ b.t = "null"

-----------------------------------------------------------------------------
(* make_hashable *)

\* k1 < k2 is defined on two dict keys: both numbers or both str.  Any other
\* pair (str and int, None and anything) makes < raise TypeError.
Comparable(k1, k2) ==
    \/ IsNumber(k1) /\ IsNumber(k2)
    \/ k1.t = "str" /\ k2.t = "str"

\* k1 < k2 on two comparable keys.
KeyLess(k1, k2) ==
    IF k1.t = "str" THEN StrLess(k1.v, k2.v) ELSE NumVal(k1) < NumVal(k2)

\* p < q on the (key, value) tuples sorted() compares: decided by the first
\* component that differs.  The keys of one dict are pairwise unequal, so the
\* first components always differ and the values are never compared.
TupleLess(p, q) ==
    IF ~PyEq(p.v[1], q.v[1]) THEN KeyLess(p.v[1], q.v[1]) ELSE FALSE

RECURSIVE Insert(_, _)
Insert(p, s) ==
    IF s = <<>> THEN <<p>>
    ELSE IF TupleLess(p, Head(s)) THEN <<p>> \o s
    ELSE <<Head(s)>> \o Insert(p, Tail(s))

\* A mutant of sorted: the pairs stay in insertion order.
sorted_unsorted(s) == s

\* sorted(pairs): ascending, stable.
RECURSIVE sorted(_)
sorted(s) ==
    IF s = <<>> THEN <<>>
    ELSE Insert(s[Len(s)], sorted(SubSeq(s, 1, Len(s) - 1)))

\* sorted(pairs) raises TypeError: two of the keys cannot be compared (a sort
\* of keys of two kinds has to compare a key of one kind with one of the other).
SortRaises(pairs) ==
    \E i, j \in 1..Len(pairs) : i # j /\ ~Comparable(pairs[i].v[1], pairs[j].v[1])

\* A mutant of sorted: descending instead of ascending.
sorted_descending(s) ==
    LET asc == sorted(s) IN [i \in 1..Len(asc) |-> asc[Len(asc) + 1 - i]]

\* A mutant of IsPrimitive: float is missing from the isinstance tuple.
IsPrimitive_nofloat(o) == o.t \in {"str", "int", "bool", "null"}

\* isinstance(obj, (str, int, float, bool, type(None)))
IsPrimitive(o) == o.t \in {"str", "int", "float", "bool", "null"}

\* The (key, value) pairs of a dict as make_hashable sorts them.  sorted() is
\* reached through this operator only.
SortedItems(pairs) == sorted(pairs)

\* obj.items(): the keys of a dict json.loads built are str.
Items(o) ==
    IF o.t = "dict" THEN [i \in 1..Len(o.v) |-> <<Str(o.v[i][1]), o.v[i][2]>>]
    ELSE o.v

\* str(obj), for a value of a type outside the isinstance tests.
Fallback(o) == Str(o.v)

RECURSIVE make_hashable(_)
make_hashable(o) ==
    IF o.t \in {"dict", "pydict"}
    THEN LET items == Items(o)
             pairs == [i \in 1..Len(items) |->
                          Tuple(<<items[i][1], make_hashable(items[i][2])>>)]
         IN IF \E i \in 1..Len(pairs) : pairs[i].v[2] = Raised THEN Raised
            ELSE IF SortRaises(pairs) THEN Raised
            ELSE Tuple(SortedItems(pairs))
    ELSE IF o.t = "list"
    THEN LET elems == [i \in 1..Len(o.v) |-> make_hashable(o.v[i])]
         IN IF \E i \in 1..Len(elems) : elems[i] = Raised THEN Raised
            ELSE Tuple(elems)
    ELSE IF IsPrimitive(o)
    THEN o
    ELSE Fallback(o)

\* A mutant of action_to_hashable: the key is built in a list shared by all
\* calls (a mutable default argument), so it holds the key of the call before.
action_to_hashable_shared(action) ==
    IF calls = <<>> THEN make_hashable(action)
    ELSE Tuple(<<calls[Len(calls)].key, make_hashable(action)>>)

action_to_hashable(action) == make_hashable(action)

-----------------------------------------------------------------------------
(* The JSON values the encoder is applied to *)

MaxLen == 2

SeqsUpTo(S, n) == UNION {[1..k -> S] : k \in 0..n}

\* Sequences of pairwise distinct elements of S, of length at most n.
InjSeqsUpTo(S, n) ==
    {s \in SeqsUpTo(S, n) : \A i, j \in 1..Len(s) : i # j => s[i] # s[j]}

ListsOver(S, n) == {List(s) : s \in SeqsUpTo(S, n)}

DictsOver(K, S, n) ==
    UNION {{Dict([i \in 1..Len(ks) |-> <<ks[i], xs[i]>>]) : xs \in [1..Len(ks) -> S]} :
           ks \in InjSeqsUpTo(K, n)}

Primitives == {None, Bool(TRUE), IntV(1), FloatV(10), FloatV(15), Str("a")}
Keys == {"a", "ab", "B"}

InnerPrimitives == {IntV(1), Bool(TRUE)}
InnerKeys == {"a", "B"}

Flat == ListsOver(Primitives, MaxLen) \cup DictsOver(Keys, Primitives, MaxLen)

Inner ==
    InnerPrimitives \cup ListsOver(InnerPrimitives, MaxLen)
        \cup DictsOver(InnerKeys, InnerPrimitives, MaxLen)

Nested == ListsOver(Inner, MaxLen) \cup DictsOver(InnerKeys, Inner, MaxLen)

JSONValues == Primitives \cup Flat \cup Nested

\* Values that are not JSON values: a set (held as its str()), alone and
\* inside a list or a dict, and dicts whose keys are of any primitive type.
NonJSON == {Other("{1, 2}")}
PyKeys == {IntV(1), IntV(2), Str("a"), None}
PyDicts ==
    UNION {{PyDict([i \in 1..Len(ks) |-> <<ks[i], xs[i]>>]) :
              xs \in [1..Len(ks) -> NonJSON \cup {Str("a")}]} :
           ks \in InjSeqsUpTo(PyKeys, MaxLen)}
PythonValues ==
    NonJSON
        \cup ListsOver(NonJSON \cup {IntV(1)}, MaxLen)
        \cup DictsOver(InnerKeys, NonJSON \cup {IntV(1)}, MaxLen)
        \cup PyDicts
        \cup {List(<<d>>) : d \in PyDicts}

-----------------------------------------------------------------------------
(* What the handlers do with a parsed value *)

WinReward == 50

IsDict(x) == x.t = "dict"

HasKey(d, k) == \E i \in 1..Len(d.v) : d.v[i][1] = k

\* d.get(k, default) on a dict d.
Get(d, k, default) ==
    IF HasKey(d, k) THEN d.v[CHOOSE i \in 1..Len(d.v) : d.v[i][1] = k][2]
    ELSE default

\* len(x) is defined (on a list or a dict; anything else the model builds
\* for these fields is None or a number, and len() raises TypeError).
HasLen(x) == x.t \in {"list", "dict"}

PyLen(x) == Len(x.v)

\* bool(x): what "if x" and "x and ..." test.
Truthy(x) ==
    IF x.t \in {"list", "dict", "tuple"} THEN Len(x.v) > 0
    ELSE IF IsNumber(x) THEN NumVal(x) # 0
    ELSE IF x.t = "str" THEN x.v # ""
    ELSE FALSE

\* x[-1] on a non-empty list.
Last(x) == x.v[Len(x.v)]

\* x is a list whose elements are all numbers (sum(x) and x[-1] >= 50 work).
IsNumList(x) == x.t = "list" /\ \A i \in 1..Len(x.v) : IsNumber(x.v[i])

RECURSIVE SumTenths(_)
SumTenths(s) == IF s = <<>> THEN 0 ELSE NumVal(Head(s)) + SumTenths(Tail(s))

\* sum(rewards) if rewards else 0, in tenths.
total_reward(rewards) == IF Truthy(rewards) THEN SumTenths(rewards.v) ELSE 0

\* rewards[-1] if rewards else None
final_reward(rewards) == IF Truthy(rewards) THEN Last(rewards) ELSE None

\* A mutant of ReachesWin: the boundary is exclusive.
ReachesWin_exclusive(x) == NumVal(x) > 10 * WinReward

\* x >= 50 on a number x.
ReachesWin(x) == NumVal(x) >= 10 * WinReward

\* rewards and rewards[-1] >= 50, as "if" reads it.
WinByRewards(rewards) ==
    Truthy(rewards) /\ ReachesWin(Last(rewards))

\* The three sequences every handler takes from a record:
\*   trajectory = episode.get('trajectory', {})
\*   actions = trajectory.get('actions', []), rewards = ..., states = ...
Trajectory(episode) == Get(episode, "trajectory", Dict(<<>>))
Actions(episode) == Get(Trajectory(episode), "actions", List(<<>>))
Rewards(episode) == Get(Trajectory(episode), "rewards", List(<<>>))
States(episode) == Get(Trajectory(episode), "states", List(<<>>))

\* The lookups above, or len(actions), raise (AttributeError, TypeError).
LookupRaises(episode) ==
    \/ ~IsDict(episode)
    \/ ~IsDict(Trajectory(episode))
    \/ ~HasLen(Actions(episode))

\* rewards[-1] (taken when rewards is truthy) raises, or the comparison of
\* the last reward with 50 does.
LastRewardRaises(rewards) ==
    Truthy(rewards) /\ (rewards.t # "list" \/ ~IsNumber(Last(rewards)))

\* sum(rewards) (taken when rewards is truthy) raises.
SumRaises(rewards) == Truthy(rewards) /\ ~IsNumList(rewards)

\* actions[-1].get('action_type') on a non-empty actions raises.
FinalActionRaises(actions) ==
    actions.t # "list" \/ ~IsDict(Last(actions))

-----------------------------------------------------------------------------
(* Lines of a JSONL file *)

NoLine == [kind |-> "none", json |-> None]
BlankLine == [kind |-> "blank", json |-> None]       \* empty after strip()
MalformedLine == [kind |-> "malformed", json |-> None] \* json.loads raises
JsonLine(x) == [kind |-> "json", json |-> x]         \* json.loads returns x

Episode(actions, rewards) ==
    Dict(<< <<"trajectory",
              Dict(<< <<"actions", List(actions)>>, <<"rewards", List(rewards)>> >>)>> >>)

\* A record whose trajectory is null: trajectory.get raises AttributeError.
NullTrajectory == Dict(<< <<"trajectory", None>> >>)

Scan == Dict(<< <<"action_type", Str("ScanNetwork")>>,
                <<"parameters", Dict(<< <<"a", IntV(1)>> >>)>> >>)
\* The same action with its keys in the other insertion order.
ScanReordered == Dict(<< <<"parameters", Dict(<< <<"a", IntV(1)>> >>)>>,
                         <<"action_type", Str("ScanNetwork")>> >>)

RunActionSeqs == {<<>>, <<Scan>>, <<Scan, ScanReordered>>}
RunRewardSeqs == {<<>>, <<IntV(50)>>, <<FloatV(499)>>, <<IntV(100), IntV(-1)>>}

\* A record without any field.
EmptyRecord == Dict(<<>>)

RunLines ==
    {BlankLine, MalformedLine, JsonLine(NullTrajectory), JsonLine(EmptyRecord)}
        \cup {JsonLine(Episode(a, r)) : a \in RunActionSeqs, r \in RunRewardSeqs}

-----------------------------------------------------------------------------
(* repeated_actions.py: the repetition counter *)

\* A Counter: its entries [key, count] in insertion order.  A key is looked
\* up by ==, which PyEq decides (equal keys have equal hashes).
CounterHas(counter, key) == \E i \in 1..Len(counter) : PyEq(counter[i].key, key)

\* A mutant of CounterAdd: every occurrence gets an entry of its own.
CounterAdd_noLookup(counter, key) == Append(counter, [key |-> key, count |-> 1])

\* action_counter[key] += 1
CounterAdd(counter, key) ==
    IF CounterHas(counter, key)
    THEN LET i == CHOOSE j \in 1..Len(counter) : PyEq(counter[j].key, key)
         IN [counter EXCEPT ![i].count = @ + 1]
    ELSE Append(counter, [key |-> key, count |-> 1])

\* The sequence "for action in actions" runs over.
ActionItems(actions) ==
    IF actions.t = "list" THEN actions.v
    ELSE [i \in 1..Len(actions.v) |-> Str(actions.v[i][1])]

\* action_counter after the loop over the actions.
RECURSIVE CountActions(_, _)
CountActions(counter, items) ==
    IF items = <<>> THEN counter
    ELSE CountActions(CounterAdd(counter, action_to_hashable(Head(items))), Tail(items))

RECURSIVE SumSeq(_)
SumSeq(s) == IF s = <<>> THEN 0 ELSE Head(s) + SumSeq(Tail(s))

\* sum(1 for count in action_counter.values() if count > 1)
num_repeated(counter) ==
    SumSeq([i \in 1..Len(counter) |-> IF counter[i].count > 1 THEN 1 ELSE 0])

\* A mutant of total_reps: every occurrence of a repeated action is counted,
\* the first one too.
total_reps_occurrences(counter) ==
    SumSeq([i \in 1..Len(counter) |->
               IF counter[i].count > 1 THEN counter[i].count ELSE 0])

\* sum(count - 1 for count in action_counter.values() if count > 1)
total_reps(counter) ==
    SumSeq([i \in 1..Len(counter) |->
               IF counter[i].count > 1 THEN counter[i].count - 1 ELSE 0])

\* rewards and rewards[-1] >= 50, as a value: the falsy rewards itself, or
\* the result of the comparison.
IsWinValue(rewards) ==
    IF Truthy(rewards) THEN Bool(ReachesWin(Last(rewards))) ELSE rewards

\* episode_info of an episode with at least one action.  repeat_percentage
\* (total_repetitions / total_actions * 100) is held as the fraction num/den.
EpisodeInfo(episode, path, lnum) ==
    LET actions == Actions(episode)
        counter == CountActions(<<>>, ActionItems(actions))
    IN [file |-> path,
        line |-> lnum,
        total_actions |-> PyLen(actions),
        unique_actions |-> Len(counter),
        num_repeated_actions |-> num_repeated(counter),
        total_repetitions |-> total_reps(counter),
        repeat_percentage |-> [num |-> total_reps(counter) * 100, den |-> PyLen(actions)],
        is_win |-> IsWinValue(Rewards(episode))]

RA_Raises(episode) ==
    \/ LookupRaises(episode)
    \/ /\ PyLen(Actions(episode)) # 0
       /\ LastRewardRaises(Rewards(episode))

RA_Empty ==
    [all_episodes |-> <<>>, win_episodes |-> <<>>, loss_episodes |-> <<>>,
     all_episodes_total_reps |-> <<>>, win_episodes_total_reps |-> <<>>,
     loss_episodes_total_reps |-> <<>>,
     all_episodes_rep_rates |-> <<>>, win_episodes_rep_rates |-> <<>>,
     loss_episodes_rep_rates |-> <<>>,
     episode_details |-> <<>>]

\* The body of the try block for one parsed line; r is the lists so far.
RA_Record(r, episode, path, lnum) ==
    IF RA_Raises(episode) \/ PyLen(Actions(episode)) = 0 THEN r
    ELSE LET info == EpisodeInfo(episode, path, lnum)
             r1 == [r EXCEPT
                      !.episode_details = Append(@, info),
                      !.all_episodes = Append(@, info.num_repeated_actions),
                      !.all_episodes_total_reps = Append(@, info.total_repetitions),
                      !.all_episodes_rep_rates = Append(@, info.repeat_percentage)]
         IN IF Truthy(info.is_win)
            THEN [r1 EXCEPT
                    !.win_episodes = Append(@, info.num_repeated_actions),
                    !.win_episodes_total_reps = Append(@, info.total_repetitions),
                    !.win_episodes_rep_rates = Append(@, info.repeat_percentage)]
            ELSE [r1 EXCEPT
                    !.loss_episodes = Append(@, info.num_repeated_actions),
                    !.loss_episodes_total_reps = Append(@, info.total_repetitions),
                    !.loss_episodes_rep_rates = Append(@, info.repeat_percentage)]

-----------------------------------------------------------------------------
(* repeated_actions.py: export_csv, and reading the file back *)

\* Text is a sequence of one-character strings.
DigitChar(d) == <<"0", "1", "2", "3", "4", "5", "6", "7", "8", "9">>[d + 1]

\* str(n) for an int n >= 0.
RECURSIVE IntText(_)
IntText(n) ==
    IF n < 10 THEN <<DigitChar(n)>> ELSE IntText(n \div 10) \o <<DigitChar(n % 10)>>

\* round(num / den, 4), in ten-thousandths (ties to even).
Round4(num, den) ==
    LET n == num * 10000
        q == n \div den
        rem == n % den
    IN IF 2 * rem < den THEN q
       ELSE IF 2 * rem > den THEN q + 1
       ELSE IF q % 2 = 0 THEN q ELSE q + 1

RECURSIVE StripZeros(_)
StripZeros(digits) ==
    IF Len(digits) > 1 /\ digits[Len(digits)] = "0"
    THEN StripZeros(SubSeq(digits, 1, Len(digits) - 1))
    ELSE digits

\* str(x) for a float x >= 0 given in ten-thousandths: "33.3333", "50.0".
FloatText(q) ==
    LET frac == q % 10000
        four == <<DigitChar(frac \div 1000), DigitChar((frac \div 100) % 10),
                  DigitChar((frac \div 10) % 10), DigitChar(frac % 10)>>
    IN IntText(q \div 10000) \o <<".">> \o StripZeros(four)

WinText == <<"w", "i", "n">>
LossText == <<"l", "o", "s", "s">>

\* The column names, as texts.
EpisodeColumn == <<"e", "p", "i", "s", "o", "d", "e">>
OutcomeColumn == <<"o", "u", "t", "c", "o", "m", "e">>
fieldnames ==
    <<EpisodeColumn, OutcomeColumn,
      <<"t", "o", "t", "a", "l", "_", "a", "c", "t", "i", "o", "n", "s">>,
      <<"u", "n", "i", "q", "u", "e", "_", "a", "c", "t", "i", "o", "n", "s">>,
      <<"n", "u", "m", "_", "r", "e", "p", "e", "a", "t", "e", "d", "_", "a", "c", "t", "i", "o", "n", "s">>,
      <<"t", "o", "t", "a", "l", "_", "r", "e", "p", "e", "t", "i", "t", "i", "o", "n", "s">>,
      <<"r", "e", "p", "e", "a", "t", "_", "p", "e", "r", "c", "e", "n", "t", "a", "g", "e">>>>

\* One written line: the fields joined by commas (no field of this file holds
\* a comma, a quote or a line break, so the writer quotes nothing).
RECURSIVE JoinFields(_)
JoinFields(fields) ==
    IF Len(fields) = 0 THEN <<>>
    ELSE IF Len(fields) = 1 THEN fields[1]
    ELSE fields[1] \o <<",">> \o JoinFields(Tail(fields))

\* A mutant of RowNumber: enumerate(...) without the start value 1.
RowNumber_fromZero(i) == i - 1

\* The number enumerate(results['episode_details'], 1) gives the i-th episode.
RowNumber(i) == i

\* The row written for the i-th episode ep.
CsvRow(i, ep) ==
    <<IntText(RowNumber(i)),
      IF Truthy(ep.is_win) THEN WinText ELSE LossText,
      IntText(ep.total_actions),
      IntText(ep.unique_actions),
      IntText(ep.num_repeated_actions),
      IntText(ep.total_repetitions),
      FloatText(Round4(ep.repeat_percentage.num, ep.repeat_percentage.den))>>

\* The lines export_csv writes: the header, then one line per episode.
export_csv(results) ==
    <<JoinFields(fieldnames)>> \o
    [i \in 1..Len(results.episode_details) |->
        JoinFields(CsvRow(i, results.episode_details[i]))]

\* The fields of one line read back: split at the commas.
SplitFields(text) ==
    LET commas == {i \in 1..Len(text) : text[i] = ","}
        starts == {1} \cup {i + 1 : i \in commas}
        start(k) == CHOOSE s \in starts : Cardinality({t \in starts : t < s}) = k - 1
        stop(k) == IF k = Cardinality(starts) THEN Len(text) ELSE start(k + 1) - 2
    IN [k \in 1..Cardinality(starts) |-> SubSeq(text, start(k), stop(k))]

DigitValue(c) == CHOOSE d \in 0..9 : DigitChar(d) = c

\* int(text) for a text of decimal digits.
RECURSIVE ParseInt(_)
ParseInt(text) ==
    IF Len(text) = 1 THEN DigitValue(text[1])
    ELSE 10 * ParseInt(SubSeq(text, 1, Len(text) - 1)) + DigitValue(text[Len(text)])

\* What csv.DictReader gives for the written lines: per data line, the value
\* under each column name of the header line.
ColumnIndex(header, name) == CHOOSE i \in 1..Len(header) : header[i] = name

ReadBackPairs(lines) ==
    LET header == SplitFields(lines[1])
    IN [i \in 1..Len(lines) - 1 |->
          LET row == SplitFields(lines[i + 1])
          IN <<ParseInt(row[ColumnIndex(header, EpisodeColumn)]),
               row[ColumnIndex(header, OutcomeColumn)]>>]

-----------------------------------------------------------------------------
(* summary.py: analyze_episodes *)

DefaultStepLimit == 100

\* A mutant of ReachesStepLimit: the threshold itself is not yet the limit.
ReachesStepLimit_exclusive(num_actions, step_limit_threshold) ==
    num_actions > step_limit_threshold

\* len(actions) >= step_limit_threshold
ReachesStepLimit(num_actions, step_limit_threshold) ==
    num_actions >= step_limit_threshold

SU_Empty ==
    [all_episodes |-> <<>>, win_episodes |-> <<>>, loss_episodes |-> <<>>,
     loss_step_limit |-> <<>>, loss_invalid_actions |-> <<>>]

SU_Raises(episode) ==
    \/ LookupRaises(episode)
    \/ /\ PyLen(Actions(episode)) # 0
       /\ \/ ~HasLen(States(episode))
          \/ SumRaises(Rewards(episode))
          \/ LastRewardRaises(Rewards(episode))
          \/ FinalActionRaises(Actions(episode))

\* A mutant of AppendAll: the episode is not added to all_episodes.
AppendAll_skipped(s, episode_data) == s

\* all_episodes.append(episode_data)
AppendAll(s, episode_data) == [s EXCEPT !.all_episodes = Append(@, episode_data)]

\* The body of the try block for one parsed line; s is the lists so far.
SU_Record(s, episode, step_limit_threshold) ==
    IF SU_Raises(episode) \/ PyLen(Actions(episode)) = 0 THEN s
    ELSE LET actions == Actions(episode)
             rewards == Rewards(episode)
             episode_data ==
                [num_actions |-> PyLen(actions),
                 num_states |-> PyLen(States(episode)),
                 total_reward |-> total_reward(rewards),
                 final_reward |-> final_reward(rewards),
                 final_action |-> Get(Last(actions), "action_type", None),
                 agent_name |-> Get(episode, "agent_name", None),
                 agent_role |-> Get(episode, "agent_role", None)]
         IN IF WinByRewards(rewards)
            THEN LET won == episode_data @@ ("outcome" :> "win")
                 IN AppendAll([s EXCEPT !.win_episodes = Append(@, won)], won)
            ELSE IF ReachesStepLimit(PyLen(actions), step_limit_threshold)
            THEN LET lost == episode_data @@ ("outcome" :> "loss")
                                          @@ ("loss_type" :> "step_limit")
                 IN AppendAll([s EXCEPT !.loss_episodes = Append(@, lost),
                                        !.loss_step_limit = Append(@, lost)], lost)
            ELSE LET lost == episode_data @@ ("outcome" :> "loss")
                                          @@ ("loss_type" :> "invalid_actions")
                 IN AppendAll([s EXCEPT !.loss_episodes = Append(@, lost),
                                        !.loss_invalid_actions = Append(@, lost)], lost)

-----------------------------------------------------------------------------
(* check_all_early_terminations.py: check_early_terminations *)

DefaultStepThreshold == 95

CE_Empty == [all_early |-> <<>>, all_losses |-> <<>>, all_wins |-> <<>>]

\* final_reward is not None and final_reward >= 50 (or < 50) raises.
CompareRaises(reward) == reward.t # "null" /\ ~IsNumber(reward)

CE_Raises(episode) ==
    \/ LookupRaises(episode)
    \/ /\ PyLen(Actions(episode)) # 0
       /\ \/ Truthy(Rewards(episode)) /\ Rewards(episode).t # "list"
          \/ CompareRaises(final_reward(Rewards(episode)))
          \/ SumRaises(Rewards(episode))
          \/ FinalActionRaises(Actions(episode))

\* A mutant of IsEarlyTermination: the threshold itself still counts as early.
IsEarlyTermination_inclusive(is_win, num_actions, step_threshold) ==
    ~is_win /\ num_actions <= step_threshold

\* (not is_win) and num_actions < step_threshold
IsEarlyTermination(is_win, num_actions, step_threshold) ==
    ~is_win /\ num_actions < step_threshold

CE_Record(c, episode, path, lnum, step_threshold) ==
    IF CE_Raises(episode) \/ PyLen(Actions(episode)) = 0 THEN c
    ELSE LET actions == Actions(episode)
             rewards == Rewards(episode)
             num_actions == PyLen(actions)
             last == final_reward(rewards)
             is_win == last.t # "null" /\ ReachesWin(last)
             is_early_termination == IsEarlyTermination(is_win, num_actions, step_threshold)
             episode_info ==
                [file |-> path,
                 line |-> lnum,
                 num_actions |-> num_actions,
                 final_reward |-> last,
                 total_reward |-> total_reward(rewards),
                 end_reason |-> Get(episode, "end_reason", None),
                 final_action |-> Get(Last(actions), "action_type", None)]
         IN IF is_win THEN [c EXCEPT !.all_wins = Append(@, episode_info)]
            ELSE IF is_early_termination
            THEN [c EXCEPT !.all_early = Append(@, episode_info)]
            ELSE [c EXCEPT !.all_losses = Append(@, episode_info)]

-----------------------------------------------------------------------------
(* find_short_losses.py: find_short_losses *)

DefaultMaxSteps == 50

\* The lines up to the print of the report's head raise.
FS_Raises(episode) ==
    \/ LookupRaises(episode)
    \/ /\ PyLen(Actions(episode)) # 0
       /\ \/ Truthy(Rewards(episode)) /\ Rewards(episode).t # "list"
          \/ CompareRaises(final_reward(Rewards(episode)))

\* f is the reports printed so far: one entry per episode whose report was
\* started (file, line, number of actions, final reward).
FS_Record(f, episode, path, lnum, max_steps) ==
    IF FS_Raises(episode) \/ PyLen(Actions(episode)) = 0 THEN f
    ELSE LET num_actions == PyLen(Actions(episode))
             last == final_reward(Rewards(episode))
             is_loss == last.t # "null" /\ NumVal(last) < 10 * WinReward
         IN IF is_loss /\ num_actions <= max_steps
            THEN Append(f, [file |-> path, line |-> lnum,
                            num_actions |-> num_actions, final_reward |-> last])
            ELSE f

-----------------------------------------------------------------------------
(* count_episodes.py: analyze_episode and analyze_jsonl_files *)

\* The ip of every host of a list in the final state.
HostIps(final_state, field) ==
    LET hosts == Get(final_state, field, List(<<>>))
    IN {Get(hosts.v[i], "ip", None) : i \in 1..Len(hosts.v)}

HostsRaise(final_state, field) ==
    LET hosts == Get(final_state, field, List(<<>>))
    IN hosts.t # "list" \/ \E i \in 1..Len(hosts.v) : ~IsDict(hosts.v[i])

analyze_episode_raises(episode_data) ==
    \/ ~IsDict(episode_data)
    \/ ~IsDict(Trajectory(episode_data))
    \/ ~HasLen(States(episode_data))
    \/ ~HasLen(Actions(episode_data))
    \/ ~HasLen(Rewards(episode_data))
    \/ SumRaises(Rewards(episode_data))
    \/ LastRewardRaises(Rewards(episode_data))
    \/ Truthy(Actions(episode_data)) /\ FinalActionRaises(Actions(episode_data))
    \/ /\ Truthy(States(episode_data))
       /\ \/ States(episode_data).t # "list"
          \/ ~IsDict(Last(States(episode_data)))
          \/ HostsRaise(Last(States(episode_data)), "controlled_hosts")
          \/ HostsRaise(Last(States(episode_data)), "known_hosts")
          \/ HostsRaise(Last(States(episode_data)), "known_networks")

\* A mutant of EpisodeOutcome: without the else branch of "if rewards".
EpisodeOutcome_noElse(rewards) ==
    IF Truthy(rewards)
    THEN (IF ReachesWin(Last(rewards)) THEN "win" ELSE "loss")
    ELSE "unknown"

\* The outcome analyze_episode decides from the rewards.
EpisodeOutcome(rewards) ==
    IF Truthy(rewards)
    THEN (IF ReachesWin(Last(rewards)) THEN "win" ELSE "loss")
    ELSE "no_action"

analyze_episode(episode_data) ==
    LET states == States(episode_data)
        actions == Actions(episode_data)
        rewards == Rewards(episode_data)
        final_state == IF Truthy(states) THEN Last(states) ELSE Dict(<<>>)
    IN [num_states |-> PyLen(states),
        num_actions |-> PyLen(actions),
        num_rewards |-> PyLen(rewards),
        total_reward |-> total_reward(rewards),
        controlled_hosts |-> HostIps(final_state, "controlled_hosts"),
        known_hosts |-> HostIps(final_state, "known_hosts"),
        known_networks |->
            LET nets == Get(final_state, "known_networks", List(<<>>))
            IN {<<Get(nets.v[i], "ip", None), Get(nets.v[i], "mask", None)>> :
                  i \in 1..Len(nets.v)},
        end_reason |-> Get(episode_data, "end_reason", None),
        agent_name |-> Get(episode_data, "agent_name", None),
        agent_role |-> Get(episode_data, "agent_role", None),
        outcome |-> EpisodeOutcome(rewards),
        final_reward |-> final_reward(rewards),
        final_action |->
            IF Truthy(actions) THEN Get(Last(actions), "action_type", Str("unknown"))
            ELSE None]

\* str(x) for the values an end_reason takes in the model.
PyStr(x) ==
    CASE x.t = "str" -> x.v
      [] x.t = "null" -> "None"
      [] x.t = "bool" -> (IF x.v THEN "True" ELSE "False")
      [] OTHER -> "<repr>"

\* d[key] += 1 on a defaultdict(int), held as a function.
Bump(d, key) ==
    IF key \in DOMAIN d THEN [d EXCEPT ![key] = @ + 1] ELSE d @@ (key :> 1)

\* d[key] = value on a dict, held as a function.
Store(d, key, value) ==
    IF key \in DOMAIN d THEN [d EXCEPT ![key] = value] ELSE d @@ (key :> value)

EmptyMap == [k \in {} |-> 0]

\* file_stats of a file just opened (size_bytes, the size on disk, is left out).
NewFileStats == [episodes |-> 0, total_actions |-> 0, total_states |-> 0, total_reward |-> 0]

CN_Empty ==
    [total_episodes |-> 0,
     files |-> EmptyMap,
     by_agent |-> EmptyMap,
     by_role |-> EmptyMap,
     by_end_reason |-> EmptyMap,
     by_outcome |-> EmptyMap,
     by_final_action |-> EmptyMap,
     episode_details |-> <<>>,
     file_stats |-> NewFileStats]

\* The body of the try block for one parsed line; c is results and the open
\* file's file_stats.  The two episode counts are raised before
\* analyze_episode is called, and stay raised when it raises.
CN_Record(c, episode_data, path, lnum) ==
    LET counted == [c EXCEPT !.file_stats.episodes = @ + 1,
                             !.total_episodes = @ + 1]
    IN IF analyze_episode_raises(episode_data) THEN counted
       ELSE LET st == analyze_episode(episode_data)
                detail == st @@ ("file" :> path) @@ ("line_num" :> lnum)
                             @@ ("num_controlled_hosts" :> Cardinality(st.controlled_hosts))
                             @@ ("num_known_hosts" :> Cardinality(st.known_hosts))
                             @@ ("num_known_networks" :> Cardinality(st.known_networks))
            IN [counted EXCEPT
                  !.file_stats.total_actions = @ + st.num_actions,
                  !.file_stats.total_states = @ + st.num_states,
                  !.file_stats.total_reward = @ + st.total_reward,
                  !.by_agent = Bump(@, st.agent_name),
                  !.by_role = Bump(@, st.agent_role),
                  !.by_end_reason = Bump(@, PyStr(st.end_reason)),
                  !.by_outcome = Bump(@, st.outcome),
                  !.by_final_action =
                      IF Truthy(st.final_action) THEN Bump(@, st.final_action) ELSE @,
                  !.episode_details = Append(@, detail)]

-----------------------------------------------------------------------------
(* investigate_end_condition.py: main's choice of episodes, investigate_episode *)

\* args.all and args.episodes (<<>>: not given) are known once main chooses.
IE_Empty == [episodes |-> <<>>, all |-> FALSE, numbers |-> <<>>, investigated |-> <<>>]

\* ep.get('trajectory', {}).get('rewards', []) raises, or sum(rewards) does.
RewardScanRaises(ep) ==
    \/ ~IsDict(ep)
    \/ ~IsDict(Trajectory(ep))
    \/ SumRaises(Rewards(ep))

\* The first of the positions at which a search loop stops, by its break or
\* by an exception; 0 when it runs to the end.
FirstStop(stops) ==
    IF stops = {} THEN 0 ELSE CHOOSE i \in stops : \A j \in stops : i <= j

PositiveSum(ep) == Truthy(Rewards(ep)) /\ SumTenths(Rewards(ep).v) > 0
NegativeSum(ep) == Truthy(Rewards(ep)) /\ SumTenths(Rewards(ep).v) < 0
ZeroActions(ep) == PyLen(Actions(ep)) = 0

FirstPositive(episodes) ==
    FirstStop({i \in 1..Len(episodes) :
                 RewardScanRaises(episodes[i]) \/ PositiveSum(episodes[i])})
FirstNegative(episodes) ==
    FirstStop({i \in 1..Len(episodes) :
                 RewardScanRaises(episodes[i]) \/ NegativeSum(episodes[i])})
FirstZeroActions(episodes) ==
    FirstStop({i \in 1..Len(episodes) :
                 LookupRaises(episodes[i]) \/ ZeroActions(episodes[i])})

\* One of the three search loops of the default choice raises.
DefaultChoiceRaises(episodes) ==
    \/ FirstPositive(episodes) # 0 /\ RewardScanRaises(episodes[FirstPositive(episodes)])
    \/ FirstNegative(episodes) # 0 /\ RewardScanRaises(episodes[FirstNegative(episodes)])
    \/ FirstZeroActions(episodes) # 0 /\ LookupRaises(episodes[FirstZeroActions(episodes)])

\* episode_indices of the default choice, as 1-based episode numbers: the
\* first episode with a positive reward sum, the first with a negative one,
\* the first with no actions, in this order, each if there is one.
DefaultChoice(episodes) ==
    LET one(i) == IF i = 0 THEN <<>> ELSE <<i>>
    IN one(FirstPositive(episodes)) \o one(FirstNegative(episodes))
           \o one(FirstZeroActions(episodes))

\* investigate_episode raises on the record.
investigate_episode_raises(episode_data) ==
    \/ ~IsDict(episode_data)
    \/ ~IsDict(Trajectory(episode_data))
    \/ ~HasLen(States(episode_data))
    \/ ~HasLen(Actions(episode_data))
    \/ ~HasLen(Rewards(episode_data))
    \/ PyLen(Rewards(episode_data)) > 0 /\ ~IsNumList(Rewards(episode_data))
    \/ /\ Truthy(States(episode_data))
       /\ \/ States(episode_data).t # "list"
          \/ ~IsDict(States(episode_data).v[1])
          \/ ~IsDict(Last(States(episode_data)))
    \/ /\ Truthy(Actions(episode_data))
       /\ \/ Actions(episode_data).t # "list"
          \/ \E i \in 1..PyLen(Actions(episode_data)) :
                /\ i > PyLen(Actions(episode_data)) - 3
                /\ ~IsDict(Actions(episode_data).v[i])

\* The episode numbers investigate_episode has returned for, when it is
\* called on the chosen ones in turn until a call raises.
RECURSIVE Investigated(_, _)
Investigated(episodes, chosen) ==
    IF chosen = <<>> \/ investigate_episode_raises(episodes[Head(chosen)]) THEN <<>>
    ELSE <<Head(chosen)>> \o Investigated(episodes, Tail(chosen))

-----------------------------------------------------------------------------
(* A run of one script over its input files *)

MaxFiles == 2
MaxLines == 2

Scripts ==
    {"summary", "repeated_actions", "check_all_early_terminations",
     "find_short_losses", "count_episodes", "investigate_end_condition"}

\* The file paths a run may be given; the last one names no file.
Paths == {"a.jsonl", "b.jsonl", "missing.jsonl"}
Exists(p) == p # "missing.jsonl"

\* The values of the script's step parameter: a small one, and the default.
Thresholds(s) ==
    CASE s = "summary" -> {2, DefaultStepLimit}
      [] s = "check_all_early_terminations" -> {2, DefaultStepThreshold}
      [] s = "find_short_losses" -> {2, DefaultMaxSteps}
      [] OTHER -> {0}

\* investigate_end_condition.py takes one file, the others one or more.
FilesAllowed(s) == IF s = "investigate_end_condition" THEN 1 ELSE MaxFiles

NotWritten == <<>>

\* json_to_csv.py before its loop: no plan entry taken, rows = [].
JC_Empty == [pos |-> 0, found |-> <<>>, rows |-> <<>>, out |-> NotWritten]

\* analyze_jsonl_file before its loop.
AJ_Empty == [line_count |-> 0, error_count |-> 0, sample_records |-> <<>>, structure |-> {}]

Idle ==
    /\ jc = JC_Empty
    /\ aj = AJ_Empty
    /\ status = "running"
    /\ file_no = 0
    /\ filepath = ""
    /\ in_file = FALSE
    /\ line_num = 0
    /\ nread = 0
    /\ line = NoLine
    /\ su = SU_Empty
    /\ ra = RA_Empty
    /\ ce = CE_Empty
    /\ fs = <<>>
    /\ cn = CN_Empty
    /\ ie = IE_Empty
    /\ csv_file = NotWritten

InitRun ==
    /\ obj = None
    /\ hashed = NotYet
    /\ calls = <<>>
    /\ script \in Scripts
    /\ threshold \in Thresholds(script)
    /\ Idle

\* The for loop takes the next path and open() succeeds.
OpenFile ==
    /\ status = "running" /\ ~in_file /\ file_no < FilesAllowed(script)
    /\ \E p \in Paths :
          /\ Exists(p)
          /\ filepath' = p
    /\ file_no' = file_no + 1
    /\ in_file' = TRUE
    /\ line_num' = 0
    /\ cn' = IF script = "count_episodes" THEN [cn EXCEPT !.file_stats = NewFileStats] ELSE cn
    /\ UNCHANGED <<hashVars, jc, aj, script, status, threshold, nread, line, su, ra, ce, fs, ie, csv_file>>

\* count_episodes.py: the path does not exist; a warning, and the next path.
SkipMissingFile ==
    /\ status = "running" /\ ~in_file /\ file_no < FilesAllowed(script)
    /\ script = "count_episodes"
    /\ \E p \in Paths :
          /\ ~Exists(p)
          /\ filepath' = p
    /\ file_no' = file_no + 1
    /\ UNCHANGED <<hashVars, jc, aj, script, status, threshold, in_file, line_num, nread, line,
                   su, ra, ce, fs, cn, ie, csv_file>>

\* The other scripts: open() raises FileNotFoundError, which nothing catches.
OpenMissingFile ==
    /\ status = "running" /\ ~in_file /\ file_no < FilesAllowed(script)
    /\ script # "count_episodes"
    /\ \E p \in Paths :
          /\ ~Exists(p)
          /\ filepath' = p
    /\ file_no' = file_no + 1
    /\ status' = "crashed"
    /\ UNCHANGED <<hashVars, jc, aj, script, threshold, in_file, line_num, nread, line,
                   su, ra, ce, fs, cn, ie, csv_file>>

\* The next line l of the open file is read.
Read(l) ==
    /\ status = "running" /\ in_file /\ nread < MaxLines
    /\ line' = l
    /\ line_num' = line_num + 1
    /\ nread' = nread + 1
    /\ UNCHANGED <<hashVars, jc, aj, script, threshold, file_no, filepath, in_file, csv_file>>

\* A blank line is skipped; a line json.loads rejects raises JSONDecodeError,
\* which the handler catches; a parsed line runs the body of the try block.
SU_Line(l) ==
    /\ script = "summary"
    /\ Read(l)
    /\ su' = IF l.kind = "json" THEN SU_Record(su, l.json, threshold) ELSE su
    /\ UNCHANGED <<status, ra, ce, fs, cn, ie>>

RA_Line(l) ==
    /\ script = "repeated_actions"
    /\ Read(l)
    /\ ra' = IF l.kind = "json" THEN RA_Record(ra, l.json, filepath, line_num + 1) ELSE ra
    /\ UNCHANGED <<status, su, ce, fs, cn, ie>>

CE_Line(l) ==
    /\ script = "check_all_early_terminations"
    /\ Read(l)
    /\ ce' = IF l.kind = "json"
             THEN CE_Record(ce, l.json, filepath, line_num + 1, threshold) ELSE ce
    /\ UNCHANGED <<status, su, ra, fs, cn, ie>>

FS_Line(l) ==
    /\ script = "find_short_losses"
    /\ Read(l)
    /\ fs' = IF l.kind = "json"
             THEN FS_Record(fs, l.json, filepath, line_num + 1, threshold) ELSE fs
    /\ UNCHANGED <<status, su, ra, ce, cn, ie>>

CN_Line(l) ==
    /\ script = "count_episodes"
    /\ Read(l)
    /\ cn' = IF l.kind = "json" THEN CN_Record(cn, l.json, filepath, line_num + 1) ELSE cn
    /\ UNCHANGED <<status, su, ra, ce, fs, ie>>

\* investigate_end_condition.py: json.loads is called outside any try block,
\* so a line it rejects ends the run with the JSONDecodeError.
IE_Line(l) ==
    /\ script = "investigate_end_condition"
    /\ Read(l)
    /\ ie' = IF l.kind = "json" THEN [ie EXCEPT !.episodes = Append(@, l.json)] ELSE ie
    /\ status' = IF l.kind = "malformed" THEN "crashed" ELSE status
    /\ UNCHANGED <<su, ra, ce, fs, cn>>

\* The open file has no more lines.
CloseFile ==
    /\ status = "running" /\ in_file
    /\ in_file' = FALSE
    /\ cn' = IF script = "count_episodes"
             THEN [cn EXCEPT !.files = Store(@, filepath, cn.file_stats)] ELSE cn
    /\ UNCHANGED <<hashVars, jc, aj, script, status, threshold, file_no, filepath, line_num, nread,
                   line, su, ra, ce, fs, ie, csv_file>>

\* No path is left: the function returns and the script ends.
Finish ==
    /\ status = "running" /\ ~in_file /\ file_no >= 1
    /\ script \notin {"repeated_actions", "investigate_end_condition"}
    /\ status' = "done"
    /\ UNCHANGED <<hashVars, jc, aj, script, threshold, file_no, filepath, in_file, line_num, nread,
                   line, su, ra, ce, fs, cn, ie, csv_file>>

\* repeated_actions.py main, after analyze_repeated_actions returned: without
\* episodes it returns at once; with --csv it calls export_csv.
RA_Main ==
    /\ status = "running" /\ ~in_file /\ file_no >= 1
    /\ script = "repeated_actions"
    /\ status' = "done"
    /\ \E csv \in BOOLEAN :
          csv_file' = IF csv /\ ra.all_episodes # <<>> THEN export_csv(ra) ELSE NotWritten
    /\ UNCHANGED <<hashVars, jc, aj, script, threshold, file_no, filepath, in_file, line_num, nread,
                   line, su, ra, ce, fs, cn, ie>>

\* investigate_end_condition.py main, after the file is read: the episodes
\* to investigate are chosen (--all, --episodes, or the default choice) and
\* investigate_episode is called on each in turn; the first exception of the
\* choice or of a call ends the run.
IE_Main ==
    /\ status = "running" /\ ~in_file /\ file_no >= 1
    /\ script = "investigate_end_condition"
    /\ \E all \in BOOLEAN, numbers \in SeqsUpTo(0..(MaxLines + 1), 1) :
          LET n == Len(ie.episodes)
              chosen ==
                  IF all THEN [i \in 1..n |-> i]
                  ELSE IF numbers # <<>> THEN SelectSeq(numbers, LAMBDA i : 1 <= i /\ i <= n)
                  ELSE DefaultChoice(ie.episodes)
              choice_raises == ~all /\ numbers = <<>> /\ DefaultChoiceRaises(ie.episodes)
              done == IF choice_raises THEN <<>> ELSE Investigated(ie.episodes, chosen)
          IN /\ ie' = [ie EXCEPT !.all = all, !.numbers = numbers, !.investigated = done]
             /\ status' = IF choice_raises \/ Len(done) < Len(chosen)
                           THEN "crashed" ELSE "done"
    /\ UNCHANGED <<hashVars, jc, aj, script, threshold, file_no, filepath, in_file, line_num, nread,
                   line, su, ra, ce, fs, cn, csv_file>>

NextRun ==
    \/ OpenFile
    \/ SkipMissingFile
    \/ OpenMissingFile
    \/ \E l \in RunLines : SU_Line(l)
    \/ \E l \in RunLines : RA_Line(l)
    \/ \E l \in RunLines : CE_Line(l)
    \/ \E l \in RunLines : FS_Line(l)
    \/ \E l \in RunLines : CN_Line(l)
    \/ \E l \in RunLines : IE_Line(l)
    \/ CloseFile
    \/ Finish
    \/ RA_Main
    \/ IE_Main

SpecRun == InitRun /\ [][NextRun]_vars

-----------------------------------------------------------------------------
(* repeated_actions.py on the first line of one file, over many episodes *)

MaxActions == 3

CountKeys == {"a", "b"}
CountValues == {IntV(1), Bool(TRUE)}

\* The example of the specification: the same action, its keys inserted in
\* the two orders.
ExampleAB == Dict(<< <<"a", IntV(1)>>, <<"b", IntV(2)>> >>)
ExampleBA == Dict(<< <<"b", IntV(2)>>, <<"a", IntV(1)>> >>)

CountActionSet == DictsOver(CountKeys, CountValues, 1) \cup {ExampleAB, ExampleBA}

CountLines ==
    {JsonLine(Episode(a, r)) :
        a \in SeqsUpTo(CountActionSet, MaxActions), r \in {<<>>, <<IntV(50)>>}}

\* repeated_actions.py has opened its first file.
InitCount ==
    /\ obj = None
    /\ hashed = NotYet
    /\ calls = <<>>
    /\ script = "repeated_actions"
    /\ threshold = 0
    /\ status = "running"
    /\ file_no = 1
    /\ filepath = "a.jsonl"
    /\ in_file = TRUE
    /\ line_num = 0
    /\ nread = 0
    /\ line = NoLine
    /\ su = SU_Empty
    /\ ra = RA_Empty
    /\ ce = CE_Empty
    /\ fs = <<>>
    /\ cn = CN_Empty
    /\ ie = IE_Empty
    /\ csv_file = NotWritten
    /\ jc = JC_Empty
    /\ aj = AJ_Empty

RA_FirstLine ==
    /\ nread = 0
    /\ \E l \in CountLines : RA_Line(l)

NextCount == RA_FirstLine

SpecCount == InitCount /\ [][NextCount]_vars

-----------------------------------------------------------------------------
(* The encoder applied to one value *)

InitHash ==
    /\ obj \in JSONValues \cup PythonValues
    /\ hashed = NotYet
    /\ calls = <<>>
    /\ script = "make_hashable"
    /\ threshold = 0
    /\ Idle

MakeHashable ==
    /\ hashed = NotYet
    /\ hashed' = make_hashable(obj)
    /\ UNCHANGED <<obj, calls, runVars>>

NextHash == MakeHashable

SpecHash == InitHash /\ [][NextHash]_vars

-----------------------------------------------------------------------------
(* The encoder called several times in one run *)

MaxCalls == 3

\* The actions the calls are made on: primitives, a list, and two mappings
\* each in both insertion orders.
PureValues ==
    {None, Bool(TRUE), IntV(1), FloatV(10), Str("a"), List(<<IntV(1), Str("a")>>),
     ExampleAB, ExampleBA, Scan, ScanReordered}

InitPure ==
    /\ obj = None
    /\ hashed = NotYet
    /\ calls = <<>>
    /\ script = "make_hashable"
    /\ threshold = 0
    /\ Idle

\* action_hash = action_to_hashable(action), once more.
Call ==
    /\ Len(calls) < MaxCalls
    /\ \E o \in PureValues :
          /\ obj' = o
          /\ hashed' = action_to_hashable(o)
          /\ calls' = Append(calls, [arg |-> o, key |-> action_to_hashable(o)])
    /\ UNCHANGED runVars

NextPure == Call

SpecPure == InitPure /\ [][NextPure]_vars

-----------------------------------------------------------------------------
(* json_to_csv.py: the episode files of the plan made into one CSV file *)

MaxFound == 2
MaxEpisodes == 2

\* A file name of the data directory, "episode_data_new_ips_<n><suffix>.json",
\* held in its parts.
FileName(n, suffix) ==
    [stem |-> "episode_data_new_ips_", n |-> n, suffix |-> suffix, ext |-> ".json"]

\* (network, file, episode_offset)
FILE_PLAN ==
    <<[network |-> 1, filename |-> FileName(1, ""), offset |-> 0],
      [network |-> 2, filename |-> FileName(2, ""), offset |-> 0],
      [network |-> 2, filename |-> FileName(2, "b"), offset |-> 100],
      [network |-> 3, filename |-> FileName(3, ""), offset |-> 0],
      [network |-> 4, filename |-> FileName(4, ""), offset |-> 0],
      [network |-> 5, filename |-> FileName(5, ""), offset |-> 0],
      [network |-> 5, filename |-> FileName(5, "b"), offset |-> 100]>>

FailText == <<"f", "a", "i", "l">>

\* A mutant of outcome: "win" if end_reason else "fail".
outcome_truthy(end_reason) == IF Truthy(end_reason) THEN WinText ELSE FailText

outcome(end_reason) ==
    IF PyEq(end_reason, Str("AgentStatus.Success")) THEN WinText ELSE FailText

\* The episodes a file may hold: a win, a timeout, one without "episode" and
\* one without "end_reason".
CsvEpisode(number, end_reason) ==
    Dict(<<<<"episode", IntV(number)>>, <<"end_reason", end_reason>>>>)

PlanEpisodes ==
    {CsvEpisode(1, Str("AgentStatus.Success")),
     CsvEpisode(100, Str("AgentStatus.TimeoutReached")),
     Dict(<<<<"end_reason", Str("AgentStatus.Success")>>>>),
     Dict(<<<<"episode", IntV(3)>>>>)}

\* A file that is not JSON: json.load raises JSONDecodeError.
MalformedJson == [t |-> "raised", v |-> "JSONDecodeError"]

\* What json.load may return for a file of the plan: a list of pairwise
\* different episodes.
FileContents ==
    {List(s) : s \in InjSeqsUpTo(PlanEpisodes, MaxEpisodes)} \cup {MalformedJson}

\* ep["episode"] or ep["end_reason"] raises KeyError.
KeyErrors(ep) == ~HasKey(ep, "episode") \/ ~HasKey(ep, "end_reason")

\* A mutant of EpisodeNumber: the offset of the plan is not added.
EpisodeNumber_noOffset(ep, offset) == Get(ep, "episode", None).v

\* ep["episode"] + offset
EpisodeNumber(ep, offset) == Get(ep, "episode", None).v + offset

\* The row appended for the episode ep of a file of the plan entry.
Row(entry, ep) ==
    [network |-> entry.network,
     episode |-> EpisodeNumber(ep, entry.offset),
     outcome |-> outcome(Get(ep, "end_reason", None))]

\* The rows the inner loop appends for data: one per episode, up to the
\* first episode that raises.
LoadedRows(entry, data) ==
    LET bad == {i \in 1..Len(data.v) : KeyErrors(data.v[i])}
        stop == IF bad = {} THEN Len(data.v) + 1
                ELSE CHOOSE i \in bad : \A j \in bad : i <= j
    IN [i \in 1..(stop - 1) |-> Row(entry, data.v[i])]

\* The sort key (r["network"], r["episode"]) of a is below that of b.
RowLess(a, b) ==
    a.network < b.network \/ (a.network = b.network /\ a.episode < b.episode)

\* r put into the sorted s, behind every row whose key is not above its own.
InsertRow(r, s) ==
    LET above == {i \in 1..Len(s) : RowLess(r, s[i])}
        k == IF above = {} THEN Len(s) + 1
             ELSE CHOOSE i \in above : \A j \in above : i <= j
    IN SubSeq(s, 1, k - 1) \o <<r>> \o SubSeq(s, k, Len(s))

\* rows.sort(key=...): a stable sort.
RECURSIVE SortRows(_)
SortRows(rows) ==
    IF rows = <<>> THEN <<>>
    ELSE InsertRow(rows[Len(rows)], SortRows(SubSeq(rows, 1, Len(rows) - 1)))

NetworkColumn == <<"n", "e", "t", "w", "o", "r", "k">>

\* fieldnames=["network", "episode", "outcome"]
csv_fieldnames == <<NetworkColumn, EpisodeColumn, OutcomeColumn>>

\* The lines writeheader and writerows write.
WriteRows(rows) ==
    <<JoinFields(csv_fieldnames)>> \o
    [i \in 1..Len(rows) |->
        JoinFields(<<IntText(rows[i].network), IntText(rows[i].episode), rows[i].outcome>>)]

InitCsv ==
    /\ obj = None
    /\ hashed = NotYet
    /\ calls = <<>>
    /\ script = "json_to_csv"
    /\ threshold = 0
    /\ Idle

\* The file of the next plan entry does not exist: a warning, and the next entry.
JC_Skip ==
    /\ script = "json_to_csv" /\ status = "running" /\ jc.pos < Len(FILE_PLAN)
    /\ jc' = [jc EXCEPT !.pos = @ + 1]
    /\ UNCHANGED <<hashVars, aj, script, status, threshold, file_no, filepath, in_file,
                   line_num, nread, line, su, ra, ce, fs, cn, ie, csv_file>>

\* The file of the next plan entry exists: json.load, then one row per episode.
\* An exception of json.load or of a row ends the run: nothing catches it.
JC_Load ==
    /\ script = "json_to_csv" /\ status = "running" /\ jc.pos < Len(FILE_PLAN)
    /\ Len(jc.found) < MaxFound
    /\ \E data \in FileContents :
          LET entry == FILE_PLAN[jc.pos + 1]
              rows == IF data = MalformedJson THEN <<>> ELSE LoadedRows(entry, data)
              raises == data = MalformedJson \/ Len(rows) < Len(data.v)
          IN /\ jc' = [jc EXCEPT !.pos = @ + 1,
                                 !.found = Append(@, [entry |-> jc.pos + 1, data |-> data]),
                                 !.rows = @ \o rows]
             /\ status' = IF raises THEN "crashed" ELSE "running"
    /\ UNCHANGED <<hashVars, aj, script, threshold, file_no, filepath, in_file,
                   line_num, nread, line, su, ra, ce, fs, cn, ie, csv_file>>

\* After the loop: the rows are sorted and written, and main returns.
JC_Write ==
    /\ script = "json_to_csv" /\ status = "running" /\ jc.pos = Len(FILE_PLAN)
    /\ jc' = [jc EXCEPT !.rows = SortRows(@), !.out = WriteRows(SortRows(jc.rows))]
    /\ status' = "done"
    /\ UNCHANGED <<hashVars, aj, script, threshold, file_no, filepath, in_file,
                   line_num, nread, line, su, ra, ce, fs, cn, ie, csv_file>>

NextCsv ==
    \/ JC_Skip
    \/ JC_Load
    \/ JC_Write

SpecCsv == InitCsv /\ [][NextCsv]_vars

-----------------------------------------------------------------------------
(* analyze_jsonl.py: the schema of the first max_lines records of a file *)

DefaultMaxLinesArg == 100

\* A type description: "int", "object", ... have no element types; that of a
\* list holds the set of its elements' descriptions ("list[int]" holds one,
\* "list[mixed: ...]" several).
TypeInfo(kind, of) == [kind |-> kind, of |-> of]

RECURSIVE get_type_info(_)
get_type_info(value) ==
    IF value.t = "null" THEN TypeInfo("null", {})
    ELSE IF value.t = "bool" THEN TypeInfo("bool", {})
    ELSE IF value.t = "int" THEN TypeInfo("int", {})
    ELSE IF value.t = "float" THEN TypeInfo("float", {})
    ELSE IF value.t = "str" THEN TypeInfo("string", {})
    ELSE IF value.t = "list"
    THEN IF Len(value.v) = 0 THEN TypeInfo("list[empty]", {})
         ELSE LET first == IF Len(value.v) < 5 THEN Len(value.v) ELSE 5
                  types == {get_type_info(value.v[i]) : i \in 1..first}
              IN IF Cardinality(types) = 1 THEN TypeInfo("list", types)
                 ELSE TypeInfo("list[mixed", types)
    ELSE IF value.t = "dict" THEN TypeInfo("object", {})
    ELSE TypeInfo(value.t, {})

\* The structure of an object o: the pairs <<path, type>> it gives, a path
\* being the keys from the record down (the code joins them with "."; no key
\* of the records below is empty or holds a ".").
RECURSIVE analyze_structure(_, _)
analyze_structure(o, path) ==
    UNION {LET value == o.v[i][2]
               current_path == Append(path, o.v[i][1])
               first == IF Len(value.v) < 3 THEN Len(value.v) ELSE 3
           IN {<<current_path, get_type_info(value)>>}
                 \cup (IF value.t = "dict" THEN analyze_structure(value, current_path)
                       ELSE IF value.t = "list" /\ Len(value.v) > 0 /\ value.v[1].t = "dict"
                       THEN UNION {IF value.v[j].t = "dict"
                                   THEN analyze_structure(value.v[j], current_path)
                                   ELSE {} : j \in 1..first}
                       ELSE {})
           : i \in 1..Len(o.v)}

\* A mutant of ReachedMaxLines: the scan stops one record later.
ReachedMaxLines_late(line_count, max_lines) == line_count > max_lines

\* if line_count >= max_lines: break
ReachedMaxLines(line_count, max_lines) == line_count >= max_lines

\* The values of --max-lines: a negative one, none, one, two and the default.
MaxLinesArgs == {-1, 0, 1, 2, DefaultMaxLinesArg}

\* The lines of the files: those of the other scripts, and a line that is
\* JSON but no object.
SchemaLines == RunLines \cup {JsonLine(IntV(1))}

InitSchema ==
    /\ obj = None
    /\ hashed = NotYet
    /\ calls = <<>>
    /\ script = "analyze_jsonl"
    /\ threshold \in MaxLinesArgs
    /\ Idle

\* main takes the next path; analyze_jsonl_file sets its counters and opens it.
AJ_Open ==
    /\ script = "analyze_jsonl" /\ status = "running" /\ ~in_file /\ file_no < MaxFiles
    /\ \E p \in Paths :
          /\ Exists(p)
          /\ filepath' = p
    /\ file_no' = file_no + 1
    /\ in_file' = TRUE
    /\ line_num' = 0
    /\ aj' = AJ_Empty
    /\ UNCHANGED <<hashVars, jc, script, status, threshold, nread, line,
                   su, ra, ce, fs, cn, ie, csv_file>>

\* The path names no file: open() raises, main catches the exception, prints
\* it and goes on with the next path.
AJ_OpenMissing ==
    /\ script = "analyze_jsonl" /\ status = "running" /\ ~in_file /\ file_no < MaxFiles
    /\ \E p \in Paths :
          /\ ~Exists(p)
          /\ filepath' = p
    /\ file_no' = file_no + 1
    /\ aj' = AJ_Empty
    /\ UNCHANGED <<hashVars, jc, script, status, threshold, in_file, line_num, nread, line,
                   su, ra, ce, fs, cn, ie, csv_file>>

\* The next line l of the open file.  With max_lines records analyzed the
\* loop breaks; a blank line is skipped; a line json.loads rejects counts as
\* an error; a parsed line is counted, kept as a sample while there are fewer
\* than 3, and its structure merged.  A parsed line that is no object raises
\* AttributeError in analyze_structure, which ends the analysis of the file
\* (main catches it).
AJ_Line(l) ==
    /\ script = "analyze_jsonl" /\ status = "running" /\ in_file /\ nread < MaxLines
    /\ line' = l
    /\ line_num' = line_num + 1
    /\ nread' = nread + 1
    /\ IF ReachedMaxLines(aj.line_count, threshold)
       THEN in_file' = FALSE /\ aj' = aj
       ELSE IF l.kind = "blank"
       THEN in_file' = in_file /\ aj' = aj
       ELSE IF l.kind = "malformed"
       THEN in_file' = in_file /\ aj' = [aj EXCEPT !.error_count = @ + 1]
       ELSE /\ in_file' = IsDict(l.json)
            /\ aj' = [aj EXCEPT
                        !.line_count = @ + 1,
                        !.sample_records = IF Len(@) < 3 THEN Append(@, l.json) ELSE @,
                        !.structure = IF IsDict(l.json)
                                      THEN @ \cup analyze_structure(l.json, <<>>)
                                      ELSE @]
    /\ UNCHANGED <<hashVars, jc, script, status, threshold, file_no, filepath,
                   su, ra, ce, fs, cn, ie, csv_file>>

\* The open file has no more lines: the report is printed.
AJ_Close ==
    /\ script = "analyze_jsonl" /\ status = "running" /\ in_file
    /\ in_file' = FALSE
    /\ UNCHANGED <<hashVars, jc, aj, script, status, threshold, file_no, filepath, line_num,
                   nread, line, su, ra, ce, fs, cn, ie, csv_file>>

\* No path is left: main returns.
AJ_Finish ==
    /\ script = "analyze_jsonl" /\ status = "running" /\ ~in_file /\ file_no >= 1
    /\ status' = "done"
    /\ UNCHANGED <<hashVars, jc, aj, script, threshold, file_no, filepath, in_file, line_num,
                   nread, line, su, ra, ce, fs, cn, ie, csv_file>>

NextSchema ==
    \/ AJ_Open
    \/ AJ_OpenMissing
    \/ \E l \in SchemaLines : AJ_Line(l)
    \/ AJ_Close
    \/ AJ_Finish

SpecSchema == InitSchema /\ [][NextSchema]_vars

-----------------------------------------------------------------------------
(* Structural equality of JSON values, and the rearrangements of a value *)

\* a and b are the same JSON value: mappings hold the same key/value pairs
\* (in any insertion order), sequences the same elements in the same order,
\* numbers the same number; true/false are not numbers.
RECURSIVE JsonEq(_, _)
JsonEq(a, b) ==
    IF a.t = "dict" /\ b.t = "dict"
    THEN /\ Len(a.v) = Len(b.v)
         /\ \A i \in 1..Len(a.v) : \E j \in 1..Len(b.v) :
                a.v[i][1] = b.v[j][1] /\ JsonEq(a.v[i][2], b.v[j][2])
    ELSE IF a.t = "list" /\ b.t = "list"
    THEN /\ Len(a.v) = Len(b.v)
         /\ \A i \in 1..Len(a.v) : JsonEq(a.v[i], b.v[i])
    ELSE IF a.t \in {"int", "float"} /\ b.t \in {"int", "float"}
    THEN NumVal(a) = NumVal(b)
    ELSE a.t = b.t /\ a.t \in {"bool", "str", "null"} /\ a.v = b.v

Perms(n) == {p \in [1..n -> 1..n] : \A i, j \in 1..n : i # j => p[i] # p[j]}

\* Every JSON value that holds the key/value pairs of o, inserted in any
\* order, at every nesting depth.
RECURSIVE Reinsertions(_)
Reinsertions(o) ==
    IF o.t = "dict"
    THEN LET n == Len(o.v)
             all == UNION {Reinsertions(o.v[i][2]) : i \in 1..n}
         IN UNION {{Dict([i \in 1..n |-> <<o.v[p[i]][1], xs[i]>>]) :
                      xs \in {ys \in [1..n -> all] :
                                \A i \in 1..n : ys[i] \in Reinsertions(o.v[p[i]][2])}} :
                   p \in Perms(n)}
    ELSE IF o.t = "list"
    THEN LET n == Len(o.v)
             all == UNION {Reinsertions(o.v[i]) : i \in 1..n}
         IN {List(xs) : xs \in {ys \in [1..n -> all] :
                                  \A i \in 1..n : ys[i] \in Reinsertions(o.v[i])}}
    ELSE {o}

\* Every reordering of the elements of the list o.
Reorderings(o) == {List([i \in 1..Len(o.v) |-> o.v[p[i]]]) : p \in Perms(Len(o.v))}

\* The insertion order of the dict o is not its sorted order.
OutOfOrder(o) ==
    /\ o.t = "dict"
    /\ \E i \in 1..Len(o.v) - 1 : StrLess(o.v[i + 1][1], o.v[i][1])

-----------------------------------------------------------------------------
(* Claims about make_hashable, under SpecHash *)

\* C1: two JSON mappings that hold the same key/value pairs in a different
\* insertion order, at any nesting depth, have the same make_hashable value.
C1_KeyOrderIrrelevant ==
    hashed # NotYet =>
        \A o2 \in Reinsertions(obj) : make_hashable(o2) = hashed

\* C1 witness: a mapping of two keys, inserted out of order, one of whose
\* values is again a mapping of two keys inserted out of order, was encoded.
C1_Witness ==
    /\ hashed # NotYet
    /\ OutOfOrder(obj)
    /\ Len(obj.v) = 2
    /\ \E i \in 1..2 : OutOfOrder(obj.v[i][2]) /\ Len(obj.v[i][2].v) = 2
    /\ Cardinality(Reinsertions(obj)) = 4

\* C3 (as claimed): every reordering of a sequence of more than one element
\* that is a different JSON sequence has a different (unequal) key.
C3_OrderAlwaysMatters ==
    (hashed # NotYet /\ obj.t = "list" /\ Len(obj.v) > 1) =>
        \A o2 \in Reorderings(obj) :
            ~JsonEq(o2, obj) => ~PyEq(make_hashable(o2), hashed)

\* C4: the key of a mapping is the tuple of its (key, make_hashable(value))
\* pairs, one per key of the mapping, in ascending lexical order of the keys.
C4_SortedPairs ==
    (hashed # NotYet /\ obj.t = "dict") =>
        /\ hashed.t = "tuple"
        /\ Len(hashed.v) = Len(obj.v)
        /\ \A j \in 1..Len(hashed.v) :
              /\ hashed.v[j].t = "tuple"
              /\ Len(hashed.v[j].v) = 2
              /\ hashed.v[j].v[1].t = "str"
        /\ \A j \in 1..Len(hashed.v) - 1 :
              StrLess(hashed.v[j].v[1].v, hashed.v[j + 1].v[1].v)
        /\ \A i \in 1..Len(obj.v) : \E j \in 1..Len(hashed.v) :
              hashed.v[j] = Tuple(<<Str(obj.v[i][1]), make_hashable(obj.v[i][2])>>)

\* C4 witness: a mapping with the keys "ab" and "B", inserted in that order,
\* was encoded, and "B" comes first in its key.
C4_Witness ==
    /\ hashed # NotYet
    /\ obj.t = "dict"
    /\ Len(obj.v) = 2
    /\ obj.v[1][1] = "ab" /\ obj.v[2][1] = "B"
    /\ hashed.v[1].v[1] = Str("B")
    /\ hashed.v[2].v[1] = Str("ab")

\* C5: a primitive JSON value (null, boolean, integer, float, string) is
\* returned unchanged.
C5_PrimitivesUnchanged ==
    (hashed # NotYet /\ obj.t \in {"null", "bool", "int", "float", "str"}) =>
        hashed = obj

\* C5 witness: the float 1.5 was encoded.
C5_Witness == hashed # NotYet /\ obj = FloatV(15) /\ hashed = FloatV(15)

-----------------------------------------------------------------------------
(* Claims about the repetition counter, under SpecCount *)

\* The episode of the line read, once repeated_actions.py has recorded it.
Counted == nread = 1 /\ Len(ra.episode_details) = 1
CountedActions == Actions(line.json).v
CountedKey(i) == make_hashable(CountedActions[i])

\* The positions at which a key occurs for the first time, and how often the
\* key at position i occurs in the episode.
FirstOccurrences ==
    {i \in 1..Len(CountedActions) :
        \A j \in 1..(i - 1) : ~PyEq(CountedKey(j), CountedKey(i))}
Occurrences(i) ==
    Cardinality({j \in 1..Len(CountedActions) : PyEq(CountedKey(j), CountedKey(i))})

\* The number of actions that differ as JSON values.
DistinctActions ==
    Cardinality({i \in 1..Len(CountedActions) :
                    \A j \in 1..(i - 1) : ~JsonEq(CountedActions[j], CountedActions[i])})

\* C2 (as claimed): JSON values that are not structurally equal get unequal
\* keys in the counting mapping, so an episode has as many keys as it has
\* structurally different actions.
C2_Injective ==
    Counted =>
        /\ \A i, j \in 1..Len(CountedActions) :
              ~JsonEq(CountedActions[i], CountedActions[j])
                  => ~PyEq(CountedKey(i), CountedKey(j))
        /\ ra.episode_details[1].unique_actions = DistinctActions

\* C6: for a non-empty action sequence the episode is recorded with
\* total_actions the length of the sequence, unique_actions the number of
\* distinct keys, num_repeated_actions the number of keys that occur more
\* than once and total_repetitions the sum of (occurrences - 1) over those
\* keys; the two-action example gives 2, 1, 1, 1.
C6_RepetitionCounts ==
    /\ (nread = 1 /\ Len(CountedActions) > 0) => Len(ra.episode_details) = 1
    /\ Counted =>
          LET info == ra.episode_details[1]
              n == Len(CountedActions)
          IN /\ info.total_actions = n
             /\ info.unique_actions = Cardinality(FirstOccurrences)
             /\ info.num_repeated_actions =
                   Cardinality({i \in FirstOccurrences : Occurrences(i) > 1})
             /\ info.total_repetitions =
                   SumSeq([i \in 1..n |->
                             IF i \in FirstOccurrences /\ Occurrences(i) > 1
                             THEN Occurrences(i) - 1 ELSE 0])
             /\ CountedActions = <<ExampleAB, ExampleBA>> =>
                   /\ info.total_actions = 2
                   /\ info.unique_actions = 1
                   /\ info.num_repeated_actions = 1
                   /\ info.total_repetitions = 1

\* C6 witness: the example episode was recorded with its counts.
C6_Witness ==
    /\ Counted
    /\ CountedActions = <<ExampleAB, ExampleBA>>
    /\ ra.episode_details[1].unique_actions = 1
    /\ ra.episode_details[1].total_repetitions = 1

-----------------------------------------------------------------------------
(* Claims about the scripts, under SpecRun *)

CountOf(d, key) == IF key \in DOMAIN d THEN d[key] ELSE 0

\* How many episodes the running script has classified as a win, as a loss.
WinCount ==
    CASE script = "summary" -> Len(su.win_episodes)
      [] script = "repeated_actions" -> Len(ra.win_episodes)
      [] script = "check_all_early_terminations" -> Len(ce.all_wins)
      [] script = "count_episodes" -> CountOf(cn.by_outcome, "win")
      [] OTHER -> 0
LossCount ==
    CASE script = "summary" -> Len(su.loss_episodes)
      [] script = "repeated_actions" -> Len(ra.loss_episodes)
      [] script = "check_all_early_terminations" -> Len(ce.all_early) + Len(ce.all_losses)
      [] script = "find_short_losses" -> Len(fs)
      [] script = "count_episodes" -> CountOf(cn.by_outcome, "loss")
      [] OTHER -> 0

\* l is a record of the expected shape.
IsRecord(l) ==
    /\ l.kind = "json"
    /\ IsDict(l.json)
    /\ IsDict(Trajectory(l.json))
    /\ Actions(l.json).t = "list"
    /\ Rewards(l.json).t = "list"

\* C7 (as claimed): in the five classifying scripts a record whose
\* trajectory.actions is empty is counted neither as a win nor as a loss.
C7_EmptyActionsSkipped ==
    [][(nread' = nread + 1 /\ IsRecord(line') /\ Len(Actions(line'.json).v) = 0)
          => (WinCount' = WinCount /\ LossCount' = LossCount)]_vars

\* C8: in summary.py, repeated_actions.py, count_episodes.py and
\* check_all_early_terminations.py a record with at least one action and a
\* non-empty rewards sequence is classified as a win when its last reward is
\* >= 50 and as a loss when it is < 50, and as nothing else.
C8_WinBoundary ==
    [][(/\ nread' = nread + 1
        /\ script \in {"summary", "repeated_actions", "count_episodes",
                       "check_all_early_terminations"}
        /\ IsRecord(line')
        /\ Len(Actions(line'.json).v) > 0
        /\ Len(Rewards(line'.json).v) > 0)
          => IF NumVal(Last(Rewards(line'.json))) >= 10 * 50
             THEN WinCount' = WinCount + 1 /\ LossCount' = LossCount
             ELSE WinCount' = WinCount /\ LossCount' = LossCount + 1]_vars

\* C8 witness: summary.py has classified an episode whose last reward is 50
\* as a win and one whose last reward is 49.9 as a loss.
C8_Witness ==
    /\ script = "summary"
    /\ Len(su.win_episodes) = 1 /\ su.win_episodes[1].final_reward = IntV(50)
    /\ Len(su.loss_episodes) = 1 /\ su.loss_episodes[1].final_reward = FloatV(499)

\* C9: the rows export_csv wrote, read back, are the (episode, outcome) pairs
\* of episode_details in order: the 1-based position of the episode, and
\* "win" when is_win holds, "loss" otherwise.
C9_CsvRoundTrip ==
    csv_file # NotWritten =>
        ReadBackPairs(csv_file) =
            [i \in 1..Len(ra.episode_details) |->
                <<i, IF Truthy(ra.episode_details[i].is_win) THEN WinText ELSE LossText>>]

\* C9 witness: a file with a loss (no rewards at all) and then a win was
\* written.
C9_Witness ==
    /\ csv_file # NotWritten
    /\ Len(ra.episode_details) = 2
    /\ ra.episode_details[1].is_win = List(<<>>)
    /\ ra.episode_details[2].is_win = Bool(TRUE)
    /\ Len(csv_file) = 3

\* C10 (as claimed): a malformed JSON line is fatal in no script: reading one
\* leaves the run going.
C10_MalformedNeverFatal ==
    [][(nread' = nread + 1 /\ line'.kind = "malformed") => status' = "running"]_vars

\* The five scripts that take several JSONL files.
MultiFileScripts ==
    {"count_episodes", "summary", "repeated_actions", "check_all_early_terminations",
     "find_short_losses"}

\* C11 (as claimed): in the five scripts that take several files, a path that
\* names no file is skipped and the run goes on with the other files.
C11_MissingFileSkipped ==
    [][(script \in MultiFileScripts /\ file_no' = file_no + 1 /\ ~Exists(filepath'))
          => status' = "running"]_vars

\* Processing of the line l raises an exception the per-line handler catches.
LineFails(l) ==
    \/ l.kind = "malformed"
    \/ /\ l.kind = "json"
       /\ CASE script = "summary" -> SU_Raises(l.json)
            [] script = "repeated_actions" -> RA_Raises(l.json)
            [] script = "check_all_early_terminations" -> CE_Raises(l.json)
            [] script = "find_short_losses" -> FS_Raises(l.json)
            [] script = "count_episodes" -> analyze_episode_raises(l.json)
            [] OTHER -> FALSE

\* C12 (as claimed): a line whose processing raises leaves every running
\* aggregate of the script as it was before the line.
C12_FailedLineChangesNothing ==
    [][(nread' = nread + 1 /\ LineFails(line')) => UNCHANGED <<su, ra, ce, fs, cn>>]_vars

\* C18 (as claimed): every episode find_short_losses reports has at least one
\* action, a final reward below 50 and strictly fewer actions than max_steps.
C18_ShortLossesOnly ==
    script = "find_short_losses" =>
        \A i \in 1..Len(fs) :
            /\ fs[i].num_actions >= 1
            /\ IsNumber(fs[i].final_reward) /\ NumVal(fs[i].final_reward) < 10 * 50
            /\ fs[i].num_actions < threshold

\* C19 (as claimed): without --all and --episodes the episodes investigated
\* are the last 3 of the file, all of them when it holds fewer.
C19_DefaultIsLastThree ==
    (script = "investigate_end_condition" /\ status = "done"
        /\ ~ie.all /\ ie.numbers = <<>>) =>
        LET n == Len(ie.episodes)
            first == IF n > 3 THEN n - 2 ELSE 1
        IN ie.investigated = [i \in 1..(n + 1 - first) |-> first + i - 1]

\* C20: in summary.py every episode classified as a loss has loss_type
\* "step_limit" exactly when its number of actions is >= the step-limit
\* threshold and "invalid_actions" otherwise, and is in the list of its type;
\* a win has no loss_type.
C20_LossType ==
    script = "summary" =>
        /\ \A i \in 1..Len(su.loss_episodes) :
              LET ep == su.loss_episodes[i]
              IN /\ ep.outcome = "loss"
                 /\ ep.loss_type = IF ep.num_actions >= threshold
                                   THEN "step_limit" ELSE "invalid_actions"
        /\ \A i \in 1..Len(su.loss_step_limit) :
              su.loss_step_limit[i].loss_type = "step_limit"
        /\ \A i \in 1..Len(su.loss_invalid_actions) :
              su.loss_invalid_actions[i].loss_type = "invalid_actions"
        /\ Len(su.loss_episodes) = Len(su.loss_step_limit) + Len(su.loss_invalid_actions)
        /\ \A i \in 1..Len(su.win_episodes) :
              /\ su.win_episodes[i].outcome = "win"
              /\ "loss_type" \notin DOMAIN su.win_episodes[i]
        /\ \A i \in 1..Len(su.all_episodes) :
              su.all_episodes[i].outcome = "win" <=> "loss_type" \notin DOMAIN su.all_episodes[i]

\* C20 witness: with --step-limit 2, a loss of exactly 2 actions is a
\* step-limit loss and a loss of 1 action an invalid-actions loss.
C20_Witness ==
    /\ script = "summary" /\ threshold = 2
    /\ Len(su.loss_step_limit) = 1 /\ su.loss_step_limit[1].num_actions = 2
    /\ Len(su.loss_invalid_actions) = 1 /\ su.loss_invalid_actions[1].num_actions = 1

-----------------------------------------------------------------------------
(* Claims about repeated calls and about values of other types *)

C15_NeverRaises ==
    hashed # NotYet =>
        /\ hashed # Raised
        /\ obj.t = "other" => hashed = Str(obj.v)

-----------------------------------------------------------------------------
(* Claims about json_to_csv.py *)

\* The data lines of the written file read back, each split into its fields,
\* and the places of the three columns in the header line.
WrittenRows == [i \in 1..(Len(jc.out) - 1) |-> SplitFields(jc.out[i + 1])]
WrittenHeader == SplitFields(jc.out[1])
WrittenNetwork(i) == ParseInt(WrittenRows[i][ColumnIndex(WrittenHeader, NetworkColumn)])
WrittenEpisode(i) == ParseInt(WrittenRows[i][ColumnIndex(WrittenHeader, EpisodeColumn)])
WrittenOutcome(i) == WrittenRows[i][ColumnIndex(WrittenHeader, OutcomeColumn)]

\* The episodes of the files that were found: <<f, k>> is the k-th episode of
\* the f-th file found.
FoundEpisodes ==
    UNION {{<<f, k>> : k \in 1..Len(jc.found[f].data.v)} : f \in 1..Len(jc.found)}
FoundName(f) == FILE_PLAN[jc.found[f].entry].filename
FoundEpisode(f, k) == jc.found[f].data.v[k]

\* The network and the episode number the name of its file gives an episode:
\* <N>b.json gives network N and the number plus 100, <N>.json network N and
\* the number itself.
NamedPair(f, k) ==
    <<FoundName(f).n,
      Get(FoundEpisode(f, k), "episode", None).v
          + (IF FoundName(f).suffix = "b" THEN 100 ELSE 0)>>

\* C16: the (network, episode) pairs of the written rows are, with their
\* multiplicities, those the file names give the episodes read: network N and
\* episode + 100 for episode_data_new_ips_<N>b.json, network N and the episode
\* unchanged for episode_data_new_ips_<N>.json.
C16_Renumbering ==
    (script = "json_to_csv" /\ status = "done") =>
        LET pairs == {NamedPair(e[1], e[2]) : e \in FoundEpisodes}
                        \cup {<<WrittenNetwork(i), WrittenEpisode(i)>> : i \in 1..Len(WrittenRows)}
        IN \A p \in pairs :
              Cardinality({i \in 1..Len(WrittenRows) :
                              <<WrittenNetwork(i), WrittenEpisode(i)>> = p})
                  = Cardinality({e \in FoundEpisodes : NamedPair(e[1], e[2]) = p})

\* C16 witness: episode 1 of episode_data_new_ips_2.json was written as
\* (2, 1) and episodes 1 and 100 of episode_data_new_ips_2b.json as (2, 101)
\* and (2, 200).
C16_Witness ==
    /\ script = "json_to_csv" /\ status = "done"
    /\ Len(jc.found) = 2
    /\ FoundName(1) = FileName(2, "") /\ FoundName(2) = FileName(2, "b")
    /\ Len(WrittenRows) = 3
    /\ <<WrittenNetwork(1), WrittenEpisode(1)>> = <<2, 1>>
    /\ <<WrittenNetwork(2), WrittenEpisode(2)>> = <<2, 101>>
    /\ <<WrittenNetwork(3), WrittenEpisode(3)>> = <<2, 200>>

\* The row the plan gives an episode, with the outcome as the claim states it:
\* "win" exactly when end_reason is the string "AgentStatus.Success".
ClaimedRow(f, k) ==
    LET entry == FILE_PLAN[jc.found[f].entry]
        ep == FoundEpisode(f, k)
    IN <<entry.network, Get(ep, "episode", None).v + entry.offset,
         IF Get(ep, "end_reason", None) = Str("AgentStatus.Success")
         THEN WinText ELSE FailText>>

\* C17: the written file has the header network,episode,outcome and every row
\* three fields; there are as many rows as episodes in the files found; and
\* each episode's row holds "win" exactly when its end_reason is
\* "AgentStatus.Success" and "fail" otherwise.
C17_RowsAndOutcome ==
    (script = "json_to_csv" /\ status = "done") =>
        /\ WrittenHeader = <<NetworkColumn, EpisodeColumn, OutcomeColumn>>
        /\ \A i \in 1..Len(WrittenRows) :
              /\ Len(WrittenRows[i]) = 3
              /\ WrittenOutcome(i) \in {WinText, FailText}
        /\ Len(WrittenRows) = Cardinality(FoundEpisodes)
        /\ \A e \in FoundEpisodes :
              Cardinality({i \in 1..Len(WrittenRows) :
                              <<WrittenNetwork(i), WrittenEpisode(i), WrittenOutcome(i)>>
                                  = ClaimedRow(e[1], e[2])})
                  = Cardinality({d \in FoundEpisodes :
                                    ClaimedRow(d[1], d[2]) = ClaimedRow(e[1], e[2])})

\* C17 witness: two files were found, holding two timeouts and a win; three
\* rows were written, one win and two fail.
C17_Witness ==
    /\ script = "json_to_csv" /\ status = "done"
    /\ Len(jc.found) = 2
    /\ Cardinality(FoundEpisodes) = 3
    /\ \E e \in FoundEpisodes :
          Get(FoundEpisode(e[1], e[2]), "end_reason", None) = Str("AgentStatus.TimeoutReached")
    /\ Cardinality({i \in 1..Len(WrittenRows) : WrittenOutcome(i) = WinText}) = 1
    /\ Cardinality({i \in 1..Len(WrittenRows) : WrittenOutcome(i) = FailText}) = 2

\* C13 (as claimed): no script raises because a record lacks a field: when
\* every file json_to_csv.py found holds a list of records, each with or
\* without "episode" and "end_reason", the run does not end in an exception.
C13_MissingFieldNoError ==
    (script = "json_to_csv" /\ \A f \in 1..Len(jc.found) : jc.found[f].data # MalformedJson)
        => status # "crashed"

-----------------------------------------------------------------------------
(* Claims about the lists and counts the scripts keep *)

\* The list of check_early_terminations the claim puts an episode in: wins
\* when its final reward exists and is >= 50, early terminations when it is
\* no win and has fewer than step_threshold actions, normal losses otherwise.
ClaimedList(episode, step_threshold) ==
    LET rewards == Rewards(episode)
        exists == Len(rewards.v) > 0
    IN IF exists /\ NumVal(rewards.v[Len(rewards.v)]) >= 10 * 50 THEN "all_wins"
       ELSE IF Len(Actions(episode).v) < step_threshold THEN "all_early"
       ELSE "all_losses"

\* A parsed line that holds an episode with at least one action.
HasActions(l) ==
    /\ l.kind = "json"
    /\ ~LookupRaises(l.json)
    /\ Len(Actions(l.json).v) >= 1

\* C21: in check_all_early_terminations.py every line read that holds an
\* episode with at least one action adds one entry, for that line, to exactly
\* one of the three lists, the one the claim names, and leaves the other two
\* alone; every other line leaves all three alone.
C21_ExactlyOneList ==
    [][(script = "check_all_early_terminations" /\ nread' = nread + 1) =>
          IF HasActions(line')
          THEN \A name \in {"all_wins", "all_early", "all_losses"} :
                  IF name = ClaimedList(line'.json, threshold)
                  THEN /\ Len(ce'[name]) = Len(ce[name]) + 1
                       /\ SubSeq(ce'[name], 1, Len(ce[name])) = ce[name]
                       /\ ce'[name][Len(ce'[name])].file = filepath
                       /\ ce'[name][Len(ce'[name])].line = line_num'
                       /\ ce'[name][Len(ce'[name])].num_actions = Len(Actions(line'.json).v)
                  ELSE ce'[name] = ce[name]
          ELSE ce' = ce]_vars

\* C21 witness: with a step threshold of 2, an episode of one action is an
\* early termination and one of two actions a normal loss.
C21_Witness ==
    /\ script = "check_all_early_terminations" /\ threshold = 2
    /\ ce.all_wins = <<>>
    /\ Len(ce.all_early) = 1 /\ ce.all_early[1].num_actions = 1
    /\ Len(ce.all_losses) = 1 /\ ce.all_losses[1].num_actions = 2

\* The two step-wise parts of C22: a blank line and a line that fails to
\* parse are not counted as analyzed, and a line read after max_lines records
\* were analyzed changes neither the count nor the schema.
C22_Steps ==
    (script = "analyze_jsonl" /\ nread' = nread + 1) =>
        /\ line'.kind \in {"blank", "malformed"} => aj'.line_count = aj.line_count
        /\ aj.line_count >= threshold =>
              aj'.line_count = aj.line_count /\ aj'.structure = aj.structure

\* C22 (as claimed): analyze_jsonl_file analyzes at most max_lines lines per
\* file: the number of analyzed records is <= max_lines at every point of
\* the scan, blank and unparsable lines are not counted, and no line after
\* the max_lines-th parsed one contributes to the schema.
C22_AtMostMaxLines ==
    /\ []((script = "analyze_jsonl" /\ file_no >= 1) => aj.line_count <= threshold)
    /\ [][C22_Steps]_vars

\* C22 (amended): the same, with the number of analyzed records at most
\* max_lines when max_lines >= 0 and 0 when max_lines is negative.
C22_AtMostMaxLinesOrNone ==
    /\ []((script = "analyze_jsonl" /\ file_no >= 1) =>
              aj.line_count <= (IF threshold < 0 THEN 0 ELSE threshold))
    /\ [][C22_Steps]_vars

\* C22 witness: with --max-lines 1 the first line was analyzed and the scan
\* stopped at the second, a record that parses, without analyzing it.
C22_Witness ==
    /\ script = "analyze_jsonl" /\ threshold = 1
    /\ file_no = 1 /\ nread = 2 /\ ~in_file
    /\ line.kind = "json" /\ IsDict(line.json)
    /\ aj.line_count = 1 /\ Len(aj.sample_records) = 1
    /\ aj.structure # {}

\* C23: every result of count_episodes.analyze_episode has the outcome
\* "no_action" exactly when the record's rewards are empty or missing, "win"
\* when the last reward is >= 50 and "loss" when it is below, never
\* "unknown"; its final_reward is the last reward, None without rewards.
C23_OutcomeFromRewards ==
    [][(script = "count_episodes" /\ nread' = nread + 1 /\ line'.kind = "json"
          /\ ~analyze_episode_raises(line'.json)) =>
          LET trajectory == Get(line'.json, "trajectory", Dict(<<>>))
              missing == ~HasKey(trajectory, "rewards")
              rewards == IF missing THEN <<>> ELSE Get(trajectory, "rewards", None).v
              stats == cn'.episode_details[Len(cn'.episode_details)]
          IN /\ Len(cn'.episode_details) = Len(cn.episode_details) + 1
             /\ stats.line_num = line_num'
             /\ stats.outcome # "unknown"
             /\ stats.outcome = "no_action" <=> rewards = <<>>
             /\ rewards # <<>> =>
                   /\ stats.final_reward = rewards[Len(rewards)]
                   /\ stats.outcome =
                        IF NumVal(rewards[Len(rewards)]) >= 10 * 50 THEN "win" ELSE "loss"
             /\ rewards = <<>> => stats.final_reward = None]_vars

\* C23 witness: a record without rewards got "no_action" and no final
\* reward, and one whose last reward is 50 got "win".
C23_Witness ==
    /\ script = "count_episodes"
    /\ Len(cn.episode_details) = 2
    /\ cn.episode_details[1].outcome = "no_action"
    /\ cn.episode_details[1].final_reward = None
    /\ cn.episode_details[2].outcome = "win"
    /\ cn.episode_details[2].final_reward = IntV(50)

\* C24: in summary.py, after every processed line, all_episodes is the
\* disjoint union of win_episodes and loss_episodes and loss_episodes that
\* of loss_step_limit and loss_invalid_actions: each list holds, in order,
\* the entries of the larger one that belong to it, and the lengths add up.
C24_Partition ==
    script = "summary" =>
        /\ su.win_episodes = SelectSeq(su.all_episodes, LAMBDA e : e.outcome = "win")
        /\ su.loss_episodes = SelectSeq(su.all_episodes, LAMBDA e : e.outcome = "loss")
        /\ \A i \in 1..Len(su.all_episodes) : su.all_episodes[i].outcome \in {"win", "loss"}
        /\ su.loss_step_limit =
              SelectSeq(su.loss_episodes, LAMBDA e : e.loss_type = "step_limit")
        /\ su.loss_invalid_actions =
              SelectSeq(su.loss_episodes, LAMBDA e : e.loss_type = "invalid_actions")
        /\ \A i \in 1..Len(su.loss_episodes) :
              su.loss_episodes[i].loss_type \in {"step_limit", "invalid_actions"}
        /\ Len(su.all_episodes) = Len(su.win_episodes) + Len(su.loss_episodes)
        /\ Len(su.loss_episodes) = Len(su.loss_step_limit) + Len(su.loss_invalid_actions)

\* C24 witness: a win and a loss were recorded, the loss by the step limit.
C24_Witness ==
    /\ script = "summary"
    /\ Len(su.all_episodes) = 2
    /\ Len(su.win_episodes) = 1
    /\ Len(su.loss_episodes) = 1
    /\ Len(su.loss_step_limit) = 1
    /\ su.loss_invalid_actions = <<>>

\* The sum of the 'episodes' counts over the entries of results['files'].
RECURSIVE SumOfFileEpisodes(_, _)
SumOfFileEpisodes(files, names) ==
    IF names = {} THEN 0
    ELSE LET n == CHOOSE x \in names : TRUE
         IN files[n].episodes + SumOfFileEpisodes(files, names \ {n})

\* C25 (as claimed): when count_episodes.analyze_jsonl_files returns,
\* total_episodes is the sum of the 'episodes' counts over the entries of
\* results['files'], whatever paths were given (the same file twice, a path
\* that names no file).
C25_TotalIsSumOverFiles ==
    (script = "count_episodes" /\ status = "done") =>
        cn.total_episodes = SumOfFileEpisodes(cn.files, DOMAIN cn.files)

\* C26: every episode analyze_repeated_actions records has
\* total_repetitions = total_actions - unique_actions,
\* 1 <= unique_actions <= total_actions, num_repeated_actions at most
\* total_repetitions and at most unique_actions, and
\* 0 <= total_repetitions < total_actions, so that its repeat percentage is
\* at least 0 and below 100.
C26_RepetitionBounds ==
    script = "repeated_actions" =>
        \A i \in 1..Len(ra.episode_details) :
            LET ep == ra.episode_details[i]
            IN /\ ep.total_repetitions = ep.total_actions - ep.unique_actions
               /\ 1 <= ep.unique_actions /\ ep.unique_actions <= ep.total_actions
               /\ ep.num_repeated_actions <= ep.total_repetitions
               /\ ep.num_repeated_actions <= ep.unique_actions
               /\ 0 <= ep.total_repetitions /\ ep.total_repetitions < ep.total_actions
               /\ 0 <= ep.repeat_percentage.num
               /\ ep.repeat_percentage.num < 100 * ep.repeat_percentage.den

\* C26 witness: an episode of three actions, two of them the same, was
\* recorded: two unique actions, one of them repeated, one repetition.
C26_Witness ==
    /\ script = "repeated_actions"
    /\ Len(ra.episode_details) = 1
    /\ ra.episode_details[1].total_actions = 3
    /\ ra.episode_details[1].unique_actions = 2
    /\ ra.episode_details[1].num_repeated_actions = 1
    /\ ra.episode_details[1].total_repetitions = 1

\* summary.analyze_episodes gives the record the outcome 'loss'.
SummaryLoss(episode) ==
    SU_Record(SU_Empty, episode, DefaultStepLimit).loss_episodes # <<>>

\* C27 (as claimed): find_short_losses.py and summary.py agree on which
\* episodes are losses: a record with at least one action and no more than
\* max_steps of them, which both scripts process without an exception, is
\* reported by find_short_losses (its is_loss is true) exactly when
\* summary.analyze_episodes gives it the outcome 'loss', a record with
\* actions and an empty rewards sequence included.
C27_SameLosses ==
    [][(script = "find_short_losses" /\ nread' = nread + 1 /\ HasActions(line')
          /\ ~FS_Raises(line'.json) /\ ~SU_Raises(line'.json)
          /\ Len(Actions(line'.json).v) <= threshold) =>
          (Len(fs') = Len(fs) + 1 <=> SummaryLoss(line'.json))]_vars

=============================================================================
